---- MODULE Spec2Model ----
(***************************************************************************)
(* Mark validator / codec of cord.js                                        *)
(* (packages/modules/src/mark/Mark.utils.ts): errorCheck, compress,         *)
(* decompress and verifyStructure, over the nested content-stream and       *)
(* content-stream-request entities.                                         *)
(*                                                                          *)
(* Every operation is a synchronous pure function of its arguments whose    *)
(* only other outcome is a thrown error.  An outcome is a record            *)
(*     [kind |-> "return", value |-> v, calls |-> cs]                       *)
(*  or [kind |-> "throw",  error |-> e, calls |-> cs]                       *)
(* where calls is the sequence of collaborator functions the operation      *)
(* invoked, in invocation order.                                            *)
(***************************************************************************)
EXTENDS Integers, Sequences, FiniteSets

\* Hashes range over 0..MaxHash; 0 stands for a malformed (empty) hash.
MaxHash == 2
\* Longest array-like value handed to decompress.
MaxLen == 3

\* The length decompress requires of a CompressedMark.
CompressedMarkLength == 2

\* Property names that may occur in a request's contents or in a schema.
Props == {"name", "age"}

---------------------------------------------------------------------------
(* JavaScript values *)

\* undefined / null: the value of a missing field.
Absent == [absent |-> TRUE]

\* JavaScript truthiness of an object-or-undefined field.
Truthy(v) == v # Absent

\* An array-like JavaScript value: isArray is the verdict of Array.isArray,
\* elems its indexed elements (elems[1] is index 0), Len(elems) its .length.
\* A string or an array-like object has isArray = FALSE.
JsValue(isArr, es) == [isArray |-> isArr, elems |-> es]

Return(v, cs) == [kind |-> "return", value |-> v, calls |-> cs]

Throw(e, cs) == [kind |-> "throw", error |-> e, calls |-> cs]

\* new SDKErrors.X(arg)
SDKError(n, a) == [name |-> n, arg |-> a]

---------------------------------------------------------------------------
(* The nested entities and the collaborators' contracts *)

\* IStream: the content-stream artifact.
Streams == [streamHash : 0..MaxHash, link : 0..MaxHash, revoked : BOOLEAN]

\* IContentStream: the request, carrying content.contents and a root hash.
Requests == [content : [contents : SUBSET Props], rootHash : 0..MaxHash]

\* IMark, possibly partial.
Marks == [content : Streams \cup {Absent}, request : Requests \cup {Absent}]

\* ISchema
Schemas == [schema : SUBSET Props]

\* StreamUtils.errorCheck: Absent when it completes, else the error it throws.
StreamUtils_errorCheck(s) ==
  IF s.streamHash = 0 THEN SDKError("ContentInvalid", "") ELSE Absent

\* MarkContentUtils.errorCheck
MarkContentUtils_errorCheck(r) ==
  IF r.rootHash = 0 THEN SDKError("RequestInvalid", "") ELSE Absent

\* Mark.verifyData: content was derived from request (matching roots).
Mark_verifyData(m) == m.content.streamHash = m.request.rootHash

\* StreamUtils.compress: the fields in fixed positional order.
StreamUtils_compress(s) == <<s.streamHash, s.link, s.revoked>>

\* StreamUtils.decompress: an outcome (without calls).
StreamUtils_decompress(a) ==
  IF Len(a) # 3
    THEN Throw(SDKError("StreamCodecFailure", ""), <<>>)
    ELSE Return([streamHash |-> a[1], link |-> a[2], revoked |-> a[3]], <<>>)

\* MarkContentUtils.compress
MarkContentUtils_compress(r) == <<r.content.contents, r.rootHash>>

\* MarkContentUtils.decompress
MarkContentUtils_decompress(a) ==
  IF Len(a) # 2
    THEN Throw(SDKError("RequestCodecFailure", ""), <<>>)
    ELSE Return([content |-> [contents |-> a[1]], rootHash |-> a[2]], <<>>)

\* SchemaUtils.verifyContentProperties: every property of contents is one
\* the schema declares.
SchemaUtils_verifyContentProperties(contents, schemaDef) ==
  contents \subseteq schemaDef

---------------------------------------------------------------------------
(* Mark.utils.ts *)

\* errorCheck with the request inspected before the content.
errorCheck_requestFirst(input) ==
  IF ~Truthy(input.request)
    THEN Throw(SDKError("ERROR_MC_NOT_PROVIDED", ""), <<>>)
  ELSE LET c1 == <<"MarkContentUtils.errorCheck">>
           e1 == MarkContentUtils_errorCheck(input.request)
       IN
  IF e1 # Absent THEN Throw(e1, c1)
  ELSE IF ~Truthy(input.content)
    THEN Throw(SDKError("ERROR_CONTENT_NOT_PROVIDED", ""), c1)
  ELSE LET c2 == Append(c1, "StreamUtils.errorCheck")
           e2 == StreamUtils_errorCheck(input.content)
       IN
  IF e2 # Absent THEN Throw(e2, c2)
  ELSE LET c3 == Append(c2, "Mark.verifyData") IN
  IF ~Mark_verifyData(input)
    THEN Throw(SDKError("ERROR_CONTENT_UNVERIFIABLE", ""), c3)
    ELSE Return(Absent, c3)

\* errorCheck throwing the content's error kind for a missing request.
errorCheck_wrongKind(input) ==
  IF ~Truthy(input.content)
    THEN Throw(SDKError("ERROR_CONTENT_NOT_PROVIDED", ""), <<>>)
  ELSE LET c1 == <<"StreamUtils.errorCheck">>
           e1 == StreamUtils_errorCheck(input.content)
       IN
  IF e1 # Absent THEN Throw(e1, c1)
  ELSE IF ~Truthy(input.request)
    THEN Throw(SDKError("ERROR_CONTENT_NOT_PROVIDED", ""), c1)
  ELSE LET c2 == Append(c1, "MarkContentUtils.errorCheck")
           e2 == MarkContentUtils_errorCheck(input.request)
       IN
  IF e2 # Absent THEN Throw(e2, c2)
  ELSE LET c3 == Append(c2, "Mark.verifyData") IN
  IF ~Mark_verifyData(input)
    THEN Throw(SDKError("ERROR_CONTENT_UNVERIFIABLE", ""), c3)
    ELSE Return(Absent, c3)

\* errorCheck without the cross-entity check.
errorCheck_noVerifyData(input) ==
  IF ~Truthy(input.content)
    THEN Throw(SDKError("ERROR_CONTENT_NOT_PROVIDED", ""), <<>>)
  ELSE LET c1 == <<"StreamUtils.errorCheck">>
           e1 == StreamUtils_errorCheck(input.content)
       IN
  IF e1 # Absent THEN Throw(e1, c1)
  ELSE IF ~Truthy(input.request)
    THEN Throw(SDKError("ERROR_MC_NOT_PROVIDED", ""), c1)
  ELSE LET c2 == Append(c1, "MarkContentUtils.errorCheck")
           e2 == MarkContentUtils_errorCheck(input.request)
       IN
  IF e2 # Absent THEN Throw(e2, c2) ELSE Return(Absent, c2)

\* errorCheck that goes on to the request after the content validator
\* failed, and reports the first failure at the end.
errorCheck_noShortCircuit(input) ==
  IF ~Truthy(input.content)
    THEN Throw(SDKError("ERROR_CONTENT_NOT_PROVIDED", ""), <<>>)
  ELSE LET c1 == <<"StreamUtils.errorCheck">>
           e1 == StreamUtils_errorCheck(input.content)
       IN
  IF ~Truthy(input.request)
    THEN IF e1 # Absent THEN Throw(e1, c1)
         ELSE Throw(SDKError("ERROR_MC_NOT_PROVIDED", ""), c1)
  ELSE LET c2 == Append(c1, "MarkContentUtils.errorCheck")
           e2 == MarkContentUtils_errorCheck(input.request)
       IN
  IF e1 # Absent THEN Throw(e1, c2)
  ELSE IF e2 # Absent THEN Throw(e2, c2)
  ELSE LET c3 == Append(c2, "Mark.verifyData") IN
  IF ~Mark_verifyData(input)
    THEN Throw(SDKError("ERROR_CONTENT_UNVERIFIABLE", ""), c3)
    ELSE Return(Absent, c3)

errorCheck(input) ==
  IF ~Truthy(input.content)
    THEN Throw(SDKError("ERROR_CONTENT_NOT_PROVIDED", ""), <<>>)
  ELSE LET c1 == <<"StreamUtils.errorCheck">>
           e1 == StreamUtils_errorCheck(input.content)
       IN
  IF e1 # Absent THEN Throw(e1, c1)
  ELSE IF ~Truthy(input.request)
    THEN Throw(SDKError("ERROR_MC_NOT_PROVIDED", ""), c1)
  ELSE LET c2 == Append(c1, "MarkContentUtils.errorCheck")
           e2 == MarkContentUtils_errorCheck(input.request)
       IN
  IF e2 # Absent THEN Throw(e2, c2)
  ELSE LET c3 == Append(c2, "Mark.verifyData") IN
  IF ~Mark_verifyData(input)
    THEN Throw(SDKError("ERROR_CONTENT_UNVERIFIABLE", ""), c3)
    ELSE Return(Absent, c3)

\* compress with the two positions exchanged.
compress_contentFirst(stream) ==
  LET chk == errorCheck(stream) IN
  IF chk.kind = "throw" THEN chk
  ELSE Return(<<StreamUtils_compress(stream.content),
                MarkContentUtils_compress(stream.request)>>,
              chk.calls \o <<"StreamUtils.compress",
                             "MarkContentUtils.compress">>)

compress(stream) ==
  LET chk == errorCheck(stream) IN
  IF chk.kind = "throw" THEN chk
  ELSE Return(<<MarkContentUtils_compress(stream.request),
                StreamUtils_compress(stream.content)>>,
              chk.calls \o <<"MarkContentUtils.compress",
                             "StreamUtils.compress">>)

\* decompress reading the request from position 1 and the content from
\* position 0.
decompress_swapped(stream) ==
  IF ~stream.isArray \/ Len(stream.elems) # CompressedMarkLength
    THEN Throw(SDKError("ERROR_DECOMPRESSION_ARRAY", "Cord Mark"), <<>>)
  ELSE LET c1 == <<"MarkContentUtils.decompress">>
           r  == MarkContentUtils_decompress(stream.elems[2])
       IN
  IF r.kind = "throw" THEN Throw(r.error, c1)
  ELSE LET c2 == Append(c1, "StreamUtils.decompress")
           c  == StreamUtils_decompress(stream.elems[1])
       IN
  IF c.kind = "throw" THEN Throw(c.error, c2)
  ELSE Return([request |-> r.value, content |-> c.value], c2)

\* decompress testing the length only, not Array.isArray.
decompress_lengthOnly(stream) ==
  IF Len(stream.elems) # CompressedMarkLength
    THEN Throw(SDKError("ERROR_DECOMPRESSION_ARRAY", "Cord Mark"), <<>>)
  ELSE LET c1 == <<"MarkContentUtils.decompress">>
           r  == MarkContentUtils_decompress(stream.elems[1])
       IN
  IF r.kind = "throw" THEN Throw(r.error, c1)
  ELSE LET c2 == Append(c1, "StreamUtils.decompress")
           c  == StreamUtils_decompress(stream.elems[2])
       IN
  IF c.kind = "throw" THEN Throw(c.error, c2)
  ELSE Return([request |-> r.value, content |-> c.value], c2)

\* decompress naming another entity in its error.
decompress_otherName(stream) ==
  IF ~stream.isArray \/ Len(stream.elems) # CompressedMarkLength
    THEN Throw(SDKError("ERROR_DECOMPRESSION_ARRAY", "Stream"), <<>>)
  ELSE LET c1 == <<"MarkContentUtils.decompress">>
           r  == MarkContentUtils_decompress(stream.elems[1])
       IN
  IF r.kind = "throw" THEN Throw(r.error, c1)
  ELSE LET c2 == Append(c1, "StreamUtils.decompress")
           c  == StreamUtils_decompress(stream.elems[2])
       IN
  IF c.kind = "throw" THEN Throw(c.error, c2)
  ELSE Return([request |-> r.value, content |-> c.value], c2)

\* decompress that validates the Mark it reconstructed.
decompress_revalidating(stream) ==
  IF ~stream.isArray \/ Len(stream.elems) # CompressedMarkLength
    THEN Throw(SDKError("ERROR_DECOMPRESSION_ARRAY", "Cord Mark"), <<>>)
  ELSE LET c1 == <<"MarkContentUtils.decompress">>
           r  == MarkContentUtils_decompress(stream.elems[1])
       IN
  IF r.kind = "throw" THEN Throw(r.error, c1)
  ELSE LET c2 == Append(c1, "StreamUtils.decompress")
           c  == StreamUtils_decompress(stream.elems[2])
       IN
  IF c.kind = "throw" THEN Throw(c.error, c2)
  ELSE LET m   == [request |-> r.value, content |-> c.value]
           chk == errorCheck(m)
       IN
  IF chk.kind = "throw" THEN Throw(chk.error, c2 \o chk.calls)
  ELSE Return(m, c2 \o chk.calls)

decompress(stream) ==
  IF ~stream.isArray \/ Len(stream.elems) # CompressedMarkLength
    THEN Throw(SDKError("ERROR_DECOMPRESSION_ARRAY", "Cord Mark"), <<>>)
  ELSE LET c1 == <<"MarkContentUtils.decompress">>
           r  == MarkContentUtils_decompress(stream.elems[1])
       IN
  IF r.kind = "throw" THEN Throw(r.error, c1)
  ELSE LET c2 == Append(c1, "StreamUtils.decompress")
           c  == StreamUtils_decompress(stream.elems[2])
       IN
  IF c.kind = "throw" THEN Throw(c.error, c2)
  ELSE Return([request |-> r.value, content |-> c.value], c2)

\* verifyStructure handing the matcher its arguments in the other order.
verifyStructure_swappedArgs(mark, schema) ==
  LET chk == errorCheck(mark) IN
  IF chk.kind = "throw" THEN chk
  ELSE Return(SchemaUtils_verifyContentProperties(
                schema.schema, mark.request.content.contents),
              Append(chk.calls, "SchemaUtils.verifyContentProperties"))

verifyStructure(mark, schema) ==
  LET chk == errorCheck(mark) IN
  IF chk.kind = "throw" THEN chk
  ELSE Return(SchemaUtils_verifyContentProperties(
                mark.request.content.contents, schema.schema),
              Append(chk.calls, "SchemaUtils.verifyContentProperties"))

---------------------------------------------------------------------------
(* The caller: one action per exported operation.  The operations are      *)
(* synchronous, so one call is in progress at a time: a call is made from  *)
(* the idle state and its outcome is consumed before the next call.        *)

VARIABLES op, mark, schema, stream, result

vars == <<op, mark, schema, stream, result>>

\* Array-like values handed to decompress: up to MaxLen elements, each the
\* compressed form of a request or of a content stream.
Shapes == UNION {[1..n -> {"request", "content"}] : n \in 0..MaxLen}

Element(k, r, s) ==
  IF k = "request" THEN MarkContentUtils_compress(r) ELSE StreamUtils_compress(s)

Init ==
  /\ op = "idle"
  /\ mark = Absent
  /\ schema = Absent
  /\ stream = Absent
  /\ result = Absent

ErrorCheck ==
  \E m \in Marks :
    /\ op = "idle"
    /\ op' = "errorCheck"
    /\ mark' = m
    /\ schema' = Absent
    /\ stream' = Absent
    /\ result' = errorCheck(m)

Compress ==
  \E m \in Marks :
    /\ op = "idle"
    /\ op' = "compress"
    /\ mark' = m
    /\ schema' = Absent
    /\ stream' = Absent
    /\ result' = compress(m)

Decompress ==
  \E isArr \in BOOLEAN, sh \in Shapes, r \in Requests, s \in Streams :
    LET v == JsValue(isArr, [i \in 1..Len(sh) |-> Element(sh[i], r, s)]) IN
    /\ op = "idle"
    /\ op' = "decompress"
    /\ mark' = Absent
    /\ schema' = Absent
    /\ stream' = v
    /\ result' = decompress(v)

\* decompress applied to the array the preceding compress returned.
RoundTrip ==
  /\ op = "compress"
  /\ result.kind = "return"
  /\ op' = "roundtrip"
  /\ stream' = JsValue(TRUE, result.value)
  /\ result' = decompress(stream')
  /\ UNCHANGED <<mark, schema>>

VerifyStructure ==
  \E m \in Marks, sc \in Schemas :
    /\ op = "idle"
    /\ op' = "verifyStructure"
    /\ mark' = m
    /\ schema' = sc
    /\ stream' = Absent
    /\ result' = verifyStructure(m, sc)

\* The caller consumes the outcome of the last call.
Done ==
  /\ op # "idle"
  /\ op' = "idle"
  /\ mark' = Absent
  /\ schema' = Absent
  /\ stream' = Absent
  /\ result' = Absent

Next ==
  \/ ErrorCheck
  \/ Compress
  \/ Decompress
  \/ RoundTrip
  \/ VerifyStructure
  \/ Done

Spec == Init /\ [][Next]_vars

---------------------------------------------------------------------------
(* Properties *)

\* The nested validators' verdicts on a Mark's present fields.
ContentValid(m) == StreamUtils_errorCheck(m.content) = Absent

RequestValid(m) == MarkContentUtils_errorCheck(m.request) = Absent

\* Every step of errorCheck passes.
WellFormed(m) ==
  /\ Truthy(m.content) /\ ContentValid(m)
  /\ Truthy(m.request) /\ RequestValid(m)
  /\ Mark_verifyData(m)

Threw(name) == result.kind = "throw" /\ result.error.name = name

Called(f) == \E i \in 1..Len(result.calls) : result.calls[i] = f

\* C1: decompress applied to what compress returned for a valid Mark
\* returns a Mark with the same request and the same content.
C1_RoundTrip ==
  op = "roundtrip" =>
    /\ result.kind = "return"
    /\ result.value.request = mark.request
    /\ result.value.content = mark.content

C1_Witness ==
  /\ op = "roundtrip"
  /\ result.kind = "return"
  /\ mark.request.content.contents = Props
  /\ mark.content.revoked
  /\ mark.content.link # mark.content.streamHash

C5_CompressGated ==
  op = "compress" =>
    IF WellFormed(mark)
      THEN /\ result.kind = "return"
           /\ Len(result.value) = 2
           /\ result.value[1] = MarkContentUtils_compress(mark.request)
           /\ result.value[2] = StreamUtils_compress(mark.content)
      ELSE /\ result.kind = "throw"
           /\ result.error = errorCheck(mark).error
           /\ ~Called("MarkContentUtils.compress")
           /\ ~Called("StreamUtils.compress")

C5_Witness ==
  /\ op = "compress"
  /\ WellFormed(mark)
  /\ result.kind = "return"
  /\ Len(result.value[1]) # Len(result.value[2])

\* C6: decompress on a value that is not an array of length 2 throws
\* ERROR_DECOMPRESSION_ARRAY without invoking a nested decoder.
C6_DecompressionArray ==
  (op = "decompress"
     /\ ~(stream.isArray /\ Len(stream.elems) = CompressedMarkLength)) =>
    /\ Threw("ERROR_DECOMPRESSION_ARRAY")
    /\ result.calls = <<>>

C6_Witness ==
  /\ op = "decompress"
  /\ ~stream.isArray
  /\ Len(stream.elems) = CompressedMarkLength
  /\ Threw("ERROR_DECOMPRESSION_ARRAY")

\* C7 as stated: the ERROR_DECOMPRESSION_ARRAY that decompress throws
\* carries the entity name "Mark".
C7_Original ==
  (op = "decompress" /\ Threw("ERROR_DECOMPRESSION_ARRAY")) =>
    result.error.arg = "Mark"

\* C7 amended: the ERROR_DECOMPRESSION_ARRAY that decompress throws carries
\* the entity name "Cord Mark".
C7_EntityName ==
  (op = "decompress" /\ Threw("ERROR_DECOMPRESSION_ARRAY")) =>
    result.error.arg = "Cord Mark"

C7_Witness ==
  /\ op = "decompress"
  /\ stream.isArray
  /\ Len(stream.elems) = 1
  /\ Threw("ERROR_DECOMPRESSION_ARRAY")
  /\ result.error.arg = "Cord Mark"

\* C8: verifyStructure returns the matcher's verdict on
\* mark.request.content.contents and schema.schema when errorCheck passes,
\* and throws errorCheck's error without invoking the matcher when it fails;
\* so it returns true exactly when errorCheck passes and the matcher accepts.
C8_VerifyStructure ==
  op = "verifyStructure" =>
    /\ IF WellFormed(mark)
         THEN /\ result.kind = "return"
              /\ result.value = SchemaUtils_verifyContentProperties(
                                  mark.request.content.contents, schema.schema)
         ELSE /\ result.kind = "throw"
              /\ result.error = errorCheck(mark).error
              /\ ~Called("SchemaUtils.verifyContentProperties")
    /\ (result.kind = "return" /\ result.value)
         <=> (/\ WellFormed(mark)
              /\ mark.request.content.contents \subseteq schema.schema)

C8_Witness ==
  /\ op = "verifyStructure"
  /\ WellFormed(mark)
  /\ result.kind = "return"
  /\ ~result.value
  /\ schema.schema # {}

\* C9: errorCheck invokes its collaborators in the order content validator,
\* request validator, verifyData, each only if every earlier step passed,
\* and throws a nested validator's error as it is.
C9_OrderAndShortCircuit ==
  op = "errorCheck" =>
    IF ~Truthy(mark.content)
      THEN result.calls = <<>> /\ Threw("ERROR_CONTENT_NOT_PROVIDED")
    ELSE IF ~ContentValid(mark)
      THEN /\ result.calls = <<"StreamUtils.errorCheck">>
           /\ result.kind = "throw"
           /\ result.error = StreamUtils_errorCheck(mark.content)
    ELSE IF ~Truthy(mark.request)
      THEN /\ result.calls = <<"StreamUtils.errorCheck">>
           /\ Threw("ERROR_MC_NOT_PROVIDED")
    ELSE IF ~RequestValid(mark)
      THEN /\ result.calls = <<"StreamUtils.errorCheck",
                               "MarkContentUtils.errorCheck">>
           /\ result.kind = "throw"
           /\ result.error = MarkContentUtils_errorCheck(mark.request)
    ELSE result.calls = <<"StreamUtils.errorCheck",
                          "MarkContentUtils.errorCheck", "Mark.verifyData">>

C9_Witness ==
  /\ op = "errorCheck"
  /\ Truthy(mark.content) /\ ~ContentValid(mark)
  /\ Truthy(mark.request) /\ ~RequestValid(mark)
  /\ result.calls = <<"StreamUtils.errorCheck">>
  /\ Threw("ContentInvalid")

\* C10: decompress on an array of length 2 whose elements the nested
\* decoders accept returns the Mark of the two decoded elements and invokes
\* nothing but the two decoders, also when that Mark fails errorCheck.
C10_NoRevalidation ==
  (/\ op = "decompress"
   /\ stream.isArray /\ Len(stream.elems) = CompressedMarkLength
   /\ MarkContentUtils_decompress(stream.elems[1]).kind = "return"
   /\ StreamUtils_decompress(stream.elems[2]).kind = "return") =>
    /\ result.kind = "return"
    /\ result.value.request = MarkContentUtils_decompress(stream.elems[1]).value
    /\ result.value.content = StreamUtils_decompress(stream.elems[2]).value
    /\ result.calls = <<"MarkContentUtils.decompress", "StreamUtils.decompress">>

C10_Witness ==
  /\ op = "decompress"
  /\ result.kind = "return"
  /\ ContentValid(result.value) /\ RequestValid(result.value)
  /\ ~Mark_verifyData(result.value)

====
